---- MODULE Spec2Model ----
(***************************************************************************)
(* Model of src/process_wizard.py: process_wizard() reads wMage.svg,       *)
(* derives two texts with str.replace and writes them to wWizard.svg and   *)
(* bWizard.svg.  Texts are TLA+ strings (sequences of characters); the     *)
(* file system, the open handles, the printed lines and the exception in   *)
(* flight are the state; every statement of the function is one action.    *)
(***************************************************************************)
EXTENDS Integers, Sequences, FiniteSets, TLC

VARIABLES
    fs,         \* path -> [kind, data]: the files the function touches
    pc,         \* position in process_wizard
    content,    \* local `content`
    w_content,  \* local `w_content`
    b_content,  \* local `b_content`
    out,        \* lines printed on stdout by this run
    handles,    \* paths with an open file object
    exc,        \* exception in flight (or, at "raised", the one that reached the caller)
    run,        \* number of the current invocation
    trace,      \* history: the file and console events of this run, in order
    pre,        \* history: fs when this run started
    prev        \* history: how the previous run ended and the fs it left

vars == <<fs, pc, content, w_content, b_content, out, handles, exc, run, trace, pre, prev>>

----------------------------------------------------------------------------
(* Bounds of the model *)

\* longest source text, counted in pieces of Pieces
MaxPieces == 3
\* number of invocations of process_wizard in one behaviour
MaxRuns == 2

----------------------------------------------------------------------------
(* Literals of the program *)

source_path == "c:\\Users\\liaml\\Documents\\GitHub\\Castles\\src\\Assets\\Images\\Chess\\wMage.svg"
w_dest_path == "c:\\Users\\liaml\\Documents\\GitHub\\Castles\\src\\Assets\\Images\\Chess\\wWizard.svg"
b_dest_path == "c:\\Users\\liaml\\Documents\\GitHub\\Castles\\src\\Assets\\Images\\Chess\\bWizard.svg"

Paths == {source_path, w_dest_path, b_dest_path}

\* the substring both replace calls look for
Target == "fill=\"#000000\" stroke=\"none\""
\* the white wizard's replacement
WhiteRepl == "fill=\"#ffffff\" stroke=\"#000000\" stroke-width=\"10\""
\* the black wizard's replacement
BlackRepl == "fill=\"#000000\" stroke=\"#ffffff\" stroke-width=\"10\""

\* f"Error: {source_path} not found."
NotFoundLine(p) == "Error: " \o p \o " not found."
\* f"Created {w_dest_path}"
CreatedLine(p) == "Created " \o p

----------------------------------------------------------------------------
(* str.replace(old, new): find the next match at or after the current      *)
(* position, copy the text before it, emit `new`, continue after the match; *)
(* when there is no further match copy the rest.                            *)

\* s.find(old, i): the first position >= i where old occurs in s, 0 if none
Find(s, old, i) ==
    LET hits == {p \in i..(Len(s) - Len(old) + 1) : SubSeq(s, p, p + Len(old) - 1) = old}
    IN  IF hits = {} THEN 0 ELSE CHOOSE p \in hits : \A q \in hits : p <= q

RECURSIVE ReplaceFrom(_, _, _, _)
ReplaceFrom(s, old, new, i) ==
    LET p == Find(s, old, i)
    IN  IF p = 0
        THEN SubSeq(s, i, Len(s))
        ELSE SubSeq(s, i, p - 1) \o new \o ReplaceFrom(s, old, new, p + Len(old))

\* a replace that stops after the first match (str.replace(old, new, 1))
ReplaceFirstOnly(s, old, new) ==
    LET p == Find(s, old, 1)
    IN  IF p = 0 THEN s
        ELSE SubSeq(s, 1, p - 1) \o new \o SubSeq(s, p + Len(old), Len(s))

\* a replace whose scan starts one character late
ReplaceLateStart(s, old, new) ==
    IF Len(s) = 0 THEN s ELSE SubSeq(s, 1, 1) \o ReplaceFrom(s, old, new, 2)

Replace(s, old, new) == ReplaceFrom(s, old, new, 1)

----------------------------------------------------------------------------
(* The file system and the inputs of a run *)

\* a path with no file
Absent == [kind |-> "absent", data |-> ""]
\* a regular, readable and writable text file
TextFile(t) == [kind |-> "file", data |-> t]

\* the start of the target (and of the black replacement): a partial match
TargetHead == "fill=\"#000000\" stroke=\""
\* text that matches nothing
Pad == " d=\"M0 0\""
\* what source texts are built from: the target, both replacements, a
\* partial match and neutral text
Pieces == {Target, WhiteRepl, BlackRepl, TargetHead, Pad}

RECURSIVE TextsOf(_)
TextsOf(n) ==
    IF n = 0 THEN {""}
    ELSE LET shorter == TextsOf(n - 1)
         IN  shorter \cup {t \o p : t \in shorter, p \in Pieces}

SourceTexts == TextsOf(MaxPieces)

\* what a destination may hold before the first run
OldText == Pad \o Target \o WhiteRepl

\* the source path: a text file, nothing, a file without read permission,
\* a directory, or a file whose bytes do not decode
SrcFiles ==
    {TextFile(t) : t \in SourceTexts}
    \cup {[kind |-> k, data |-> ""] : k \in {"absent", "denied", "dir", "undecodable"}}

DestFiles == {Absent, TextFile(OldText)}

NoExc == [kind |-> "none", filename |-> ""]
Exc(k, p) == [kind |-> k, filename |-> p]

\* the exceptions open(p, 'r') can raise on file f
OpenReadErrors(f) ==
    CASE f.kind = "absent" -> {"FileNotFoundError"}
      [] f.kind = "denied" -> {"PermissionError"}
      [] f.kind = "dir"    -> {"IsADirectoryError", "PermissionError"}
      [] OTHER             -> {}

\* the exceptions open(p, 'w') can raise (no directory, no permission)
OpenWriteErrors == {"FileNotFoundError", "PermissionError"}

\* the try of lines 8-13 handles FileNotFoundError and nothing else, and only
\* for the statements inside it
CaughtAnyOSError(e, inTry) ==
    inTry /\ e.kind \in {"FileNotFoundError", "PermissionError", "IsADirectoryError"}

CaughtEverywhere(e, inTry) == e.kind = "FileNotFoundError"

Caught(e, inTry) == inTry /\ e.kind = "FileNotFoundError"

\* where control goes when e is raised
AfterRaise(e, inTry) == IF Caught(e, inTry) THEN "except" ELSE "raised"

Log(ev, p) == Append(trace, <<ev, p>>)

----------------------------------------------------------------------------
Init ==
    /\ \E s \in SrcFiles, w \in DestFiles, b \in DestFiles :
          fs = (source_path :> s) @@ (w_dest_path :> w) @@ (b_dest_path :> b)
    /\ pc = "open_src"
    /\ content = ""
    /\ w_content = ""
    /\ b_content = ""
    /\ out = <<>>
    /\ handles = {}
    /\ exc = NoExc
    /\ run = 1
    /\ trace = <<>>
    /\ pre = fs
    /\ prev = [pc |-> "none", fs |-> fs]

\* line 9: open(source_path, 'r')
OpenSource ==
    /\ pc = "open_src"
    /\ LET errs == OpenReadErrors(fs[source_path]) IN
       IF errs # {}
       THEN /\ \E k \in errs :
                 /\ exc' = Exc(k, source_path)
                 /\ pc' = AfterRaise(Exc(k, source_path), TRUE)
            /\ UNCHANGED <<handles, trace>>
       ELSE /\ handles' = handles \cup {source_path}
            /\ trace' = Log("open", source_path)
            /\ pc' = "read_src"
            /\ exc' = exc
    /\ UNCHANGED <<fs, content, w_content, b_content, out, run, pre, prev>>

\* line 10: content = f.read()
ReadSource ==
    /\ pc = "read_src"
    /\ IF fs[source_path].kind = "undecodable"
       THEN /\ exc' = Exc("UnicodeDecodeError", source_path)
            /\ UNCHANGED <<content, trace>>
       ELSE /\ content' = fs[source_path].data
            /\ trace' = Log("read", source_path)
            /\ exc' = exc
    /\ pc' = "close_src"
    /\ UNCHANGED <<fs, w_content, b_content, out, handles, run, pre, prev>>

\* the source is opened without `with` and never closed
CloseSourceLeak ==
    /\ pc = "close_src"
    /\ pc' = IF exc = NoExc THEN "w_replace" ELSE AfterRaise(exc, TRUE)
    /\ UNCHANGED <<fs, content, w_content, b_content, out, handles, exc, run, trace, pre, prev>>

\* lines 9-10: leaving the with block closes f, also when read raised
CloseSource ==
    /\ pc = "close_src"
    /\ handles' = handles \ {source_path}
    /\ trace' = Log("close", source_path)
    /\ pc' = IF exc = NoExc THEN "w_replace" ELSE AfterRaise(exc, TRUE)
    /\ UNCHANGED <<fs, content, w_content, b_content, out, exc, run, pre, prev>>

\* a handler that returns without printing
ExceptNotFoundSilent ==
    /\ pc = "except"
    /\ exc' = NoExc
    /\ pc' = "returned"
    /\ UNCHANGED <<fs, content, w_content, b_content, out, handles, run, trace, pre, prev>>

\* a handler that prints and re-raises
ExceptNotFoundReraise ==
    /\ pc = "except"
    /\ out' = Append(out, NotFoundLine(source_path))
    /\ trace' = Log("print", NotFoundLine(source_path))
    /\ pc' = "raised"
    /\ UNCHANGED <<fs, content, w_content, b_content, handles, exc, run, pre, prev>>

\* lines 11-13: except FileNotFoundError: print(...); return
ExceptNotFound ==
    /\ pc = "except"
    /\ out' = Append(out, NotFoundLine(source_path))
    /\ trace' = Log("print", NotFoundLine(source_path))
    /\ exc' = NoExc
    /\ pc' = "returned"
    /\ UNCHANGED <<fs, content, w_content, b_content, handles, run, pre, prev>>

\* line 20: w_content = content.replace(...)
ReplaceWhite ==
    /\ pc = "w_replace"
    /\ w_content' = Replace(content, Target, WhiteRepl)
    /\ pc' = "w_open"
    /\ UNCHANGED <<fs, content, b_content, out, handles, exc, run, trace, pre, prev>>

\* open(p, 'a'): creates the file but keeps what it holds
OpenDestAppend(p, next) ==
    \E fault \in {"none"} \cup OpenWriteErrors :
       IF fault # "none"
       THEN /\ exc' = Exc(fault, p)
            /\ pc' = AfterRaise(Exc(fault, p), FALSE)
            /\ UNCHANGED <<fs, handles, trace>>
       ELSE /\ fs' = [fs EXCEPT ![p] = TextFile(fs[p].data)]
            /\ handles' = handles \cup {p}
            /\ trace' = Log("open", p)
            /\ pc' = next
            /\ exc' = exc

\* lines 22, 30: open(p, 'w') creates or truncates the file, or raises
OpenDest(p, next) ==
    \E fault \in {"none"} \cup OpenWriteErrors :
       IF fault # "none"
       THEN /\ exc' = Exc(fault, p)
            /\ pc' = AfterRaise(Exc(fault, p), FALSE)
            /\ UNCHANGED <<fs, handles, trace>>
       ELSE /\ fs' = [fs EXCEPT ![p] = TextFile("")]
            /\ handles' = handles \cup {p}
            /\ trace' = Log("open", p)
            /\ pc' = next
            /\ exc' = exc

\* lines 23, 31: f.write(text) appends text at the file position; when the
\* device fails only part of it is stored and OSError is raised
WriteDest(p, text, next) ==
    /\ \E fault \in {"none", "OSError"} :
          IF fault = "none"
          THEN /\ fs' = [fs EXCEPT ![p].data = @ \o text]
               /\ trace' = Log("write", p)
               /\ exc' = exc
          ELSE /\ fs' = [fs EXCEPT ![p].data = @ \o SubSeq(text, 1, Len(text) \div 2)]
               /\ exc' = Exc("OSError", p)
               /\ trace' = trace
    /\ pc' = next

\* lines 22-23, 30-31: leaving the with block closes f, also when write raised
CloseDest(p, next) ==
    /\ handles' = handles \ {p}
    /\ trace' = Log("close", p)
    /\ pc' = IF exc = NoExc THEN next ELSE AfterRaise(exc, FALSE)

\* lines 24, 32: print(f"Created {p}")
PrintCreated(p, next) ==
    /\ out' = Append(out, CreatedLine(p))
    /\ trace' = Log("print", CreatedLine(p))
    /\ pc' = next

OpenWhite ==
    /\ pc = "w_open"
    /\ OpenDest(w_dest_path, "w_write")
    /\ UNCHANGED <<content, w_content, b_content, out, run, pre, prev>>

WriteWhite ==
    /\ pc = "w_write"
    /\ WriteDest(w_dest_path, w_content, "w_close")
    /\ UNCHANGED <<content, w_content, b_content, out, handles, run, pre, prev>>

CloseWhite ==
    /\ pc = "w_close"
    /\ CloseDest(w_dest_path, "w_print")
    /\ UNCHANGED <<fs, content, w_content, b_content, out, exc, run, pre, prev>>

\* the confirmation of line 24 names the other destination
PrintWhiteOtherPath ==
    /\ pc = "w_print"
    /\ PrintCreated(b_dest_path, "b_replace")
    /\ UNCHANGED <<fs, content, w_content, b_content, handles, exc, run, pre, prev>>

PrintWhite ==
    /\ pc = "w_print"
    /\ PrintCreated(w_dest_path, "b_replace")
    /\ UNCHANGED <<fs, content, w_content, b_content, handles, exc, run, pre, prev>>

\* the black text derived from the white text instead of the source text
ReplaceBlackFromWhite ==
    /\ pc = "b_replace"
    /\ b_content' = Replace(w_content, Target, BlackRepl)
    /\ pc' = "b_open"
    /\ UNCHANGED <<fs, content, w_content, out, handles, exc, run, trace, pre, prev>>

\* line 28: b_content = content.replace(...)
ReplaceBlack ==
    /\ pc = "b_replace"
    /\ b_content' = Replace(content, Target, BlackRepl)
    /\ pc' = "b_open"
    /\ UNCHANGED <<fs, content, w_content, out, handles, exc, run, trace, pre, prev>>

OpenBlack ==
    /\ pc = "b_open"
    /\ OpenDest(b_dest_path, "b_write")
    /\ UNCHANGED <<content, w_content, b_content, out, run, pre, prev>>

WriteBlack ==
    /\ pc = "b_write"
    /\ WriteDest(b_dest_path, b_content, "b_close")
    /\ UNCHANGED <<content, w_content, b_content, out, handles, run, pre, prev>>

CloseBlack ==
    /\ pc = "b_close"
    /\ CloseDest(b_dest_path, "b_print")
    /\ UNCHANGED <<fs, content, w_content, b_content, out, exc, run, pre, prev>>

PrintBlack ==
    /\ pc = "b_print"
    /\ PrintCreated(b_dest_path, "returned")
    /\ UNCHANGED <<fs, content, w_content, b_content, handles, exc, run, pre, prev>>

Terminated == pc \in {"returned", "raised"}

\* lines 34-35: the script is invoked again; the files stay as the last run
\* left them and the locals of the new call are fresh
Rerun ==
    /\ Terminated
    /\ run < MaxRuns
    /\ run' = run + 1
    /\ prev' = [pc |-> pc, fs |-> fs]
    /\ pre' = fs
    /\ pc' = "open_src"
    /\ content' = ""
    /\ w_content' = ""
    /\ b_content' = ""
    /\ out' = <<>>
    /\ trace' = <<>>
    /\ exc' = NoExc
    /\ UNCHANGED <<fs, handles>>

Next ==
    \/ OpenSource
    \/ ReadSource
    \/ CloseSource
    \/ ExceptNotFound
    \/ ReplaceWhite
    \/ OpenWhite
    \/ WriteWhite
    \/ CloseWhite
    \/ PrintWhite
    \/ ReplaceBlack
    \/ OpenBlack
    \/ WriteBlack
    \/ CloseBlack
    \/ PrintBlack
    \/ Rerun

Spec == Init /\ [][Next]_vars

----------------------------------------------------------------------------
(* Vocabulary of the properties.  Replacement is characterised position by  *)
(* position, independently of the scan that Replace performs.               *)

\* the positions where t occurs in s
Occ(s, t) == {p \in 1..(Len(s) - Len(t) + 1) : SubSeq(s, p, p + Len(t) - 1) = t}

\* the number of occurrences of t in s
Count(s, t) == Cardinality(Occ(s, t))

\* the left-to-right non-overlapping occurrences: an occurrence is taken
\* exactly when no taken occurrence to its left overlaps it
Taken(s, t) ==
    LET occ == Occ(s, t)
    IN  CHOOSE M \in SUBSET occ :
            \A p \in occ : (p \in M) <=> ~(\E q \in M : q < p /\ p < q + Len(t))

\* o is s with every taken occurrence of t replaced by r: o has the length
\* that fits, holds r where each taken occurrence lands, and holds the text
\* of s between, before and after the taken occurrences unchanged
IsReplaced(s, t, r, o) ==
    LET M == Taken(s, t)
        d == Len(r) - Len(t)
        shift(i) == d * Cardinality({q \in M : q < i})
        \* where the untouched text that ends just before position p starts
        gapStart(p) ==
            LET ends == {q + Len(t) : q \in {x \in M : x < p}}
            IN  IF ends = {} THEN 1 ELSE CHOOSE e \in ends : \A f \in ends : f <= e
        sameGap(p) ==
            SubSeq(o, gapStart(p) + shift(p), p - 1 + shift(p)) = SubSeq(s, gapStart(p), p - 1)
    IN  /\ Len(o) = Len(s) + d * Cardinality(M)
        /\ \A p \in M : /\ SubSeq(o, p + shift(p), p + shift(p) + Len(r) - 1) = r
                        /\ sameGap(p)
        /\ sameGap(Len(s) + 1)

\* line names path p
Names(line, p) == Occ(line, p) # {}

Src == fs[source_path]
WDest == fs[w_dest_path]
BDest == fs[b_dest_path]

\* the run returned normally after reading the source
Success == pc = "returned" /\ Src.kind = "file"

\* the source exists but open(source_path, 'r') fails
Unreadable == Src.kind \in {"denied", "dir"}

\* the exception in flight comes from a destination
DestFailed == exc.filename \in {w_dest_path, b_dest_path}

Events(ev, p) == {i \in 1..Len(trace) : trace[i] = <<ev, p>>}

CreatedW == "Created " \o w_dest_path
CreatedB == "Created " \o b_dest_path
IsErrorLine(line) == SubSeq(line, 1, 6) = "Error:"

----------------------------------------------------------------------------
\* C1: after a successful run the white destination holds the source text
\* with every left-to-right non-overlapping occurrence of the target replaced
\* by the white replacement, the black destination likewise with the black
\* replacement, whatever the destinations held before; with no occurrence
\* both equal the source text and no error is raised or reported.
C1_DestinationsHoldReplacedText ==
    Success =>
        /\ WDest.kind = "file"
        /\ BDest.kind = "file"
        /\ IsReplaced(Src.data, Target, WhiteRepl, WDest.data)
        /\ IsReplaced(Src.data, Target, BlackRepl, BDest.data)
        /\ Occ(Src.data, Target) = {} =>
              /\ WDest.data = Src.data
              /\ BDest.data = Src.data
              /\ exc = NoExc
              /\ \A i \in 1..Len(out) : ~IsErrorLine(out[i])

C1_Witness ==
    /\ Success
    /\ Count(Src.data, Target) >= 2
    /\ WDest.data # Src.data
    /\ run = 1
    /\ pre[w_dest_path].kind = "file"
    /\ pre[b_dest_path].kind = "absent"

\* C2: when the source path does not exist, in every state of the run both
\* destinations are as they were before the run, no "Created" line is
\* printed, and the run ends with exactly one printed line, which names the
\* source path.
C2_MissingSourceTouchesNothing ==
    Src.kind = "absent" =>
        /\ WDest = pre[w_dest_path]
        /\ BDest = pre[b_dest_path]
        /\ \A i \in 1..Len(out) : out[i] \notin {CreatedW, CreatedB}
        /\ Len(out) <= 1
        /\ Terminated => /\ Len(out) = 1
                         /\ Names(out[1], source_path)

C2_Witness ==
    /\ Src.kind = "absent"
    /\ pc = "returned"
    /\ pre[w_dest_path].kind = "file"
    /\ pre[b_dest_path].kind = "absent"

\* C3 as stated: a source that exists but cannot be opened is handled like a
\* missing one: no writes, one printed line naming the source path, normal
\* return.
C3_UnreadableReportedLikeMissing ==
    (Unreadable /\ Terminated) =>
        /\ WDest = pre[w_dest_path]
        /\ BDest = pre[b_dest_path]
        /\ Len(out) = 1
        /\ Names(out[1], source_path)
        /\ pc = "returned"

\* C3 amended: a source that exists but cannot be opened makes the run abort
\* before any destination is opened or written, and nothing is printed; the
\* error is not handled: it reaches the caller as PermissionError or
\* IsADirectoryError carrying the source path.
C3_UnreadablePropagates ==
    Unreadable =>
        /\ WDest = pre[w_dest_path]
        /\ BDest = pre[b_dest_path]
        /\ \A p \in {w_dest_path, b_dest_path} : Events("open", p) \cup Events("write", p) = {}
        /\ out = <<>>
        /\ pc \in {"open_src", "raised"}
        /\ Terminated => /\ pc = "raised"
                         /\ exc.kind \in {"PermissionError", "IsADirectoryError"}
                         /\ exc.filename = source_path

C3_Witness ==
    /\ Unreadable
    /\ pc = "raised"
    /\ exc.kind = "PermissionError"
    /\ pre[w_dest_path].kind = "file"

\* C4 as stated: after a successful run each destination holds no occurrence
\* of the target, and as many occurrences of its replacement as the source
\* held of the target, for every source text.
C4_ReplacementCountEqualsTargetCount ==
    Success =>
        /\ Count(WDest.data, Target) = 0
        /\ Count(BDest.data, Target) = 0
        /\ Count(WDest.data, WhiteRepl) = Count(Src.data, Target)
        /\ Count(BDest.data, BlackRepl) = Count(Src.data, Target)

\* C4 amended: after a successful run each destination holds no occurrence
\* of the target, and the occurrences of its replacement number those of the
\* target in the source plus those of the replacement already in the source.
C4_ReplacementCountAddsExisting ==
    Success =>
        /\ Count(WDest.data, Target) = 0
        /\ Count(BDest.data, Target) = 0
        /\ Count(WDest.data, WhiteRepl) = Count(Src.data, Target) + Count(Src.data, WhiteRepl)
        /\ Count(BDest.data, BlackRepl) = Count(Src.data, Target) + Count(Src.data, BlackRepl)

C4_Witness ==
    /\ Success
    /\ Count(Src.data, Target) >= 1
    /\ Count(Src.data, WhiteRepl) >= 1
    /\ Count(WDest.data, WhiteRepl) >= 2

\* C5: a run that returns normally right after a run that returned normally
\* leaves each destination exactly as the earlier run left it.
C5_SecondRunSameFiles ==
    (run >= 2 /\ pc = "returned" /\ prev.pc = "returned") =>
        /\ WDest = prev.fs[w_dest_path]
        /\ BDest = prev.fs[b_dest_path]

C5_Witness ==
    /\ run = 2
    /\ Success
    /\ prev.pc = "returned"
    /\ Count(Src.data, Target) >= 1
    /\ WDest.data # ""

\* C6 as stated: every terminated run in which no write failed has returned
\* normally, with no exception, after printing at least one line.
C6_ReturnsNormallyUnlessWriteFails ==
    (Terminated /\ ~DestFailed) =>
        /\ pc = "returned"
        /\ exc = NoExc
        /\ Len(out) >= 1

\* the statements a run still has before it, counting the runs to come
StepsLeft ==
    LET here == CASE pc = "open_src"  -> 16
                  [] pc = "read_src"  -> 15
                  [] pc = "close_src" -> 14
                  [] pc = "except"    -> 13
                  [] pc = "w_replace" -> 12
                  [] pc = "w_open"    -> 11
                  [] pc = "w_write"   -> 10
                  [] pc = "w_close"   -> 9
                  [] pc = "w_print"   -> 8
                  [] pc = "b_replace" -> 7
                  [] pc = "b_open"    -> 6
                  [] pc = "b_write"   -> 5
                  [] pc = "b_close"   -> 4
                  [] pc = "b_print"   -> 3
                  [] OTHER            -> 0
    IN  17 * (MaxRuns - run) + here

\* C6 amended: every step of a run brings it closer to its end, so every run
\* is finite; and a run whose source is a readable text file or is missing
\* and that terminates without a failed write has returned normally, with no
\* exception, after printing at least one line.
C6_ReturnsNormallyWhenReadOrMissing ==
    /\ [][StepsLeft' < StepsLeft]_vars
    /\ [](Src.kind \in {"file", "absent"} /\ Terminated /\ ~DestFailed =>
              /\ pc = "returned"
              /\ exc = NoExc
              /\ Len(out) >= 1)

C6_Witness ==
    /\ Src.kind = "absent"
    /\ pc = "returned"
    /\ exc = NoExc
    /\ Len(out) = 1
    /\ run = 1

\* C7: a successful run is exactly: source opened, read, closed; white
\* destination opened, written, closed, white confirmation printed; black
\* destination opened, written, closed, black confirmation printed.  Two
\* lines are printed, neither an error line; the white confirmation is
\* printed only after the white write and the black one only after the black
\* write, and at the moment a confirmation has just been printed its
\* destination is closed and holds its final text.
C7_EventsInOrder ==
    /\ Success =>
          /\ trace = << <<"open", source_path>>, <<"read", source_path>>,
                        <<"close", source_path>>,
                        <<"open", w_dest_path>>, <<"write", w_dest_path>>,
                        <<"close", w_dest_path>>, <<"print", CreatedW>>,
                        <<"open", b_dest_path>>, <<"write", b_dest_path>>,
                        <<"close", b_dest_path>>, <<"print", CreatedB>> >>
          /\ out = <<CreatedW, CreatedB>>
          /\ IsReplaced(Src.data, Target, BlackRepl, BDest.data)
    /\ \A i \in 1..Len(out) :
          /\ out[i] = CreatedW => /\ Events("write", w_dest_path) # {}
                                  /\ w_dest_path \notin handles
          /\ out[i] = CreatedB => /\ Events("write", b_dest_path) # {}
                                  /\ b_dest_path \notin handles
    /\ pc = "b_replace" =>
          /\ out = <<CreatedW>>
          /\ IsReplaced(Src.data, Target, WhiteRepl, WDest.data)

C7_Witness ==
    /\ Success
    /\ Len(trace) = 11
    /\ Len(out) = 2
    /\ Count(Src.data, Target) >= 1

\* C8: at most one file is open in any state; the source is open only while
\* it is read, the white destination only while it is written, and nothing
\* is open once the function has returned or raised.
C8_AtMostOneHandle ==
    /\ Cardinality(handles) <= 1
    /\ source_path \in handles => pc \in {"read_src", "close_src"}
    /\ w_dest_path \in handles => pc \in {"w_write", "w_close"}
    /\ b_dest_path \in handles => pc \in {"b_write", "b_close"}
    /\ Terminated => handles = {}

C8_Witness ==
    /\ pc = "raised"
    /\ exc = Exc("OSError", b_dest_path)
    /\ Events("open", source_path) # {}
    /\ Events("open", w_dest_path) # {}
    /\ Events("open", b_dest_path) # {}
    /\ handles = {}

\* C9: once opening or writing a destination has failed, the error is never
\* handled: the run only closes that file and raises; the failed destination
\* is opened at most once, no confirmation is printed for it or for a later
\* destination, a later destination is neither opened nor changed, no error
\* line is printed, and when the black destination fails the white one keeps
\* its new text and its confirmation.
C9_WriteFailureIsFatal ==
    DestFailed =>
        /\ pc \in {"w_close", "b_close", "raised"}
        /\ Cardinality(Events("open", exc.filename)) <= 1
        /\ \A i \in 1..Len(out) : ~IsErrorLine(out[i])
        /\ exc.filename = w_dest_path =>
              /\ out = <<>>
              /\ BDest = pre[b_dest_path]
              /\ Events("open", b_dest_path) = {}
        /\ exc.filename = b_dest_path =>
              /\ out = <<CreatedW>>
              /\ WDest = TextFile(w_content)
              /\ pc = "raised" => IsReplaced(Src.data, Target, WhiteRepl, WDest.data)

C9_Witness ==
    /\ pc = "raised"
    /\ exc = Exc("FileNotFoundError", b_dest_path)
    /\ out = <<CreatedW>>
    /\ Count(Src.data, Target) >= 1
    /\ pre[b_dest_path].kind = "file"

\* C10: the source file is in every state what it was when the run started,
\* `content` is the source text from the read on, and `b_content` is the
\* source text with the target replaced by the black replacement, so nothing
\* of the white variant enters it.
C10_SourceUntouched ==
    /\ Src = pre[source_path]
    /\ (Src.kind = "file" /\ pc \notin {"open_src", "read_src"}) => content = Src.data
    /\ pc = "b_open" =>
          /\ IsReplaced(Src.data, Target, BlackRepl, b_content)
          /\ Count(b_content, WhiteRepl) = Count(Src.data, WhiteRepl)

C10_Witness ==
    /\ pc = "b_open"
    /\ Count(Src.data, Target) >= 1
    /\ b_content # w_content
    /\ WDest.data = w_content

====
